---- MODULE Spec2Model ----
(***************************************************************************)
(* Model of gerber-to-dxf.py: the coordinate decoder parse_gerber_coord,   *)
(* the Gerber outline extractor parse_gerber_outline and the Excellon      *)
(* drill extractor parse_drill_file.                                       *)
(*                                                                         *)
(* Text is modelled as sequences of one-character strings, so that the     *)
(* regular expressions and string methods of the source are operators on   *)
(* characters.  Python floats are modelled as exact rationals <<n, d>> in  *)
(* lowest terms (d > 0); None is the empty tuple.                          *)
(***************************************************************************)
EXTENDS Integers, Sequences, FiniteSets, TLC

VARIABLES
    \* parse_gerber_outline locals
    pc, line_no, raw_line,
    x_int, x_dec, y_int, y_dec, zero_suppression, units, mode,
    cur_x, cur_y, next_x, next_y, dcode, entities, converted,
    \* parse_drill_file parameters and locals
    dpc, dline_no, raw, min_hole_size_mm, max_hole_size_mm,
    drill_units, tool_diameter, current_tool, current_x, current_y, holes,
    \* parse_gerber_coord parameters and result
    cpc, value, int_digits, dec_digits, zs, result,
    \* write_dxf parameters and the parts it joins
    wpc, outline, hole_list, parts,
    \* history: the unit modes that were active when the running extractor
    \* read a coordinate token or a tool diameter
    read_units

gvars == <<pc, line_no, raw_line, x_int, x_dec, y_int, y_dec, zero_suppression,
           units, mode, cur_x, cur_y, next_x, next_y, dcode, entities, converted>>
dvars == <<dpc, dline_no, raw, min_hole_size_mm, max_hole_size_mm,
           drill_units, tool_diameter, current_tool, current_x, current_y, holes>>
cvars == <<cpc, value, int_digits, dec_digits, zs, result>>
wvars == <<wpc, outline, hole_list, parts>>
vars == <<gvars, dvars, cvars, wvars, read_units>>

----------------------------------------------------------------------------
(* Bounds of the model *)

\* number of text lines the Gerber extractor reads
MaxLines == 4
\* number of text lines the drill extractor reads
MaxDrillLines == 4
\* longest digit token handed to the decoder in SpecCoord
MaxLen == 3
\* largest digit count per part of a format in SpecCoord
MaxDigits == 2

----------------------------------------------------------------------------
(* Numbers: Python floats as exact rationals *)

None == <<>>

Abs(n) == IF n < 0 THEN -n ELSE n

RECURSIVE GCD(_, _)
GCD(a, b) == IF b = 0 THEN a ELSE GCD(b, a % b)

\* n / d for d > 0, in lowest terms
Rat(n, d) == LET g == GCD(Abs(n), d) IN <<n \div g, d \div g>>

Lcm(a, b) == (a \div GCD(a, b)) * b

\* a * b, cancelling across before multiplying
RMul(a, b) ==
    LET p == Rat(a[1], b[2])
        q == Rat(b[1], a[2])
    IN  <<p[1] * q[1], p[2] * q[2]>>

\* a + b and a - b over the least common denominator
RAdd(a, b) ==
    LET l == Lcm(a[2], b[2])
    IN  Rat(a[1] * (l \div a[2]) + b[1] * (l \div b[2]), l)
RSub(a, b) == RAdd(a, <<-b[1], b[2]>>)

\* a < b
RLess(a, b) ==
    LET l == Lcm(a[2], b[2])
    IN  a[1] * (l \div a[2]) < b[1] * (l \div b[2])

RECURSIVE Pow10(_)
Pow10(k) == IF k = 0 THEN 1 ELSE 10 * Pow10(k - 1)

----------------------------------------------------------------------------
(* Characters and strings *)

Digits == {"0", "1", "2", "3", "4", "5", "6", "7", "8", "9"}

DigitVal(c) == CASE c = "0" -> 0 [] c = "1" -> 1 [] c = "2" -> 2 [] c = "3" -> 3
                 [] c = "4" -> 4 [] c = "5" -> 5 [] c = "6" -> 6 [] c = "7" -> 7
                 [] c = "8" -> 8 [] c = "9" -> 9

\* int(digits) of a digit string
RECURSIVE IntOf(_)
IntOf(s) == IF s = <<>> THEN 0
            ELSE 10 * IntOf(SubSeq(s, 1, Len(s) - 1)) + DigitVal(s[Len(s)])

\* str.upper() on one character
UpperChar(c) ==
    CASE c = "a" -> "A" [] c = "b" -> "B" [] c = "c" -> "C" [] c = "d" -> "D"
      [] c = "e" -> "E" [] c = "f" -> "F" [] c = "g" -> "G" [] c = "h" -> "H"
      [] c = "i" -> "I" [] c = "j" -> "J" [] c = "k" -> "K" [] c = "l" -> "L"
      [] c = "m" -> "M" [] c = "n" -> "N" [] c = "o" -> "O" [] c = "p" -> "P"
      [] c = "q" -> "Q" [] c = "r" -> "R" [] c = "s" -> "S" [] c = "t" -> "T"
      [] c = "u" -> "U" [] c = "v" -> "V" [] c = "w" -> "W" [] c = "x" -> "X"
      [] c = "y" -> "Y" [] c = "z" -> "Z" [] OTHER -> c

Upper(s) == [k \in 1..Len(s) |-> UpperChar(s[k])]

StartsWith(s, p) == Len(s) >= Len(p) /\ SubSeq(s, 1, Len(p)) = p
EndsWith(s, p) == Len(s) >= Len(p) /\ SubSeq(s, Len(s) - Len(p) + 1, Len(s)) = p

Whitespace == {" ", "\t", "\r"}

\* str.strip()
RECURSIVE Strip(_)
Strip(s) == IF s = <<>> THEN s
            ELSE IF s[1] \in Whitespace THEN Strip(Tail(s))
            ELSE IF s[Len(s)] \in Whitespace THEN Strip(SubSeq(s, 1, Len(s) - 1))
            ELSE s

\* s.rjust(w, "0") and s.ljust(w, "0")
Zeros(k) == [j \in 1..k |-> "0"]
RJust(s, w) == IF Len(s) >= w THEN s ELSE Zeros(w - Len(s)) \o s
LJust(s, w) == IF Len(s) >= w THEN s ELSE s \o Zeros(w - Len(s))

\* the slice s[-k:]  (for k = 0 this is s[0:], the whole string)
LastChars(s, k) == IF k = 0 \/ k >= Len(s) THEN s
                   ELSE SubSeq(s, Len(s) - k + 1, Len(s))

\* the least element of a non-empty set of integers
Least(S) == CHOOSE x \in S : \A y \in S : x <= y

\* index of the first character c of s at or after index k, Len(s) + 1 when
\* there is none
NextChar(s, c, k) ==
    LET at == {j \in k..Len(s) : s[j] = c}
    IN  IF at = {} THEN Len(s) + 1 ELSE Least(at)

\* index of the first "." of s at or after index k, 0 when there is none
DotIndex(s, k) == IF NextChar(s, ".", k) > Len(s) THEN 0 ELSE NextChar(s, ".", k)

\* float(s) of an unsigned decimal literal  digits* [. digits*]
FloatOfUnsigned(s) ==
    LET dot  == DotIndex(s, 1)
        ip   == IF dot = 0 THEN s ELSE SubSeq(s, 1, dot - 1)
        fp   == IF dot = 0 THEN <<>> ELSE SubSeq(s, dot + 1, Len(s))
    IN  Rat(IntOf(ip) * Pow10(Len(fp)) + IntOf(fp), Pow10(Len(fp)))

\* float(s) of an optionally signed decimal literal
FloatOf(s) ==
    IF s # <<>> /\ s[1] = "-" THEN RMul(<<-1, 1>>, FloatOfUnsigned(Tail(s)))
    ELSE IF s # <<>> /\ s[1] = "+" THEN FloatOfUnsigned(Tail(s))
    ELSE FloatOfUnsigned(s)

----------------------------------------------------------------------------
(* parse_gerber_coord *)

\* the branch zero_suppression == "L"
PadL(digits, total) == RJust(digits, total)

\* mutant: trailing suppression pads like leading suppression
PadT_rjust(digits, total) == RJust(digits, total)

\* the branch zero_suppression == "T"
PadT(digits, total) == LJust(digits, total)

\* the else branch
PadOther(digits, total) == RJust(digits, total)

\* `digits`: the token without its sign
UnsignedDigits(val) == IF val = <<>> \/ val[1] \in {"+", "-"} THEN Tail(val) ELSE val

\* `digits` after lines 19-28: padded or cut to width total
FixedDigits(val, idig, ddig, zsup) ==
    LET digits == UnsignedDigits(val)
        total  == idig + ddig
    IN  IF Len(digits) < total
        THEN IF zsup = "L" THEN PadL(digits, total)
             ELSE IF zsup = "T" THEN PadT(digits, total)
             ELSE PadOther(digits, total)
        ELSE IF Len(digits) > total THEN LastChars(digits, total)
        ELSE digits

\* the decimal digits of 2^1024 - 2^970, the least integer n for which the
\* true division n / 1 raises OverflowError (the quotient rounds past the
\* largest float)
FloatOverflowDigits == <<
    "1", "7", "9", "7", "6", "9", "3", "1", "3", "4", "8", "6", "2",
    "3", "1", "5", "8", "0", "7", "9", "3", "7", "2", "8", "9", "7",
    "1", "4", "0", "5", "3", "0", "3", "4", "1", "5", "0", "7", "9",
    "9", "3", "4", "1", "3", "2", "7", "1", "0", "0", "3", "7", "8",
    "2", "6", "9", "3", "6", "1", "7", "3", "7", "7", "8", "9", "8",
    "0", "4", "4", "4", "9", "6", "8", "2", "9", "2", "7", "6", "4",
    "7", "5", "0", "9", "4", "6", "6", "4", "9", "0", "1", "7", "9",
    "7", "7", "5", "8", "7", "2", "0", "7", "0", "9", "6", "3", "3",
    "0", "2", "8", "6", "4", "1", "6", "6", "9", "2", "8", "8", "7",
    "9", "1", "0", "9", "4", "6", "5", "5", "5", "5", "4", "7", "8",
    "5", "1", "9", "4", "0", "4", "0", "2", "6", "3", "0", "6", "5",
    "7", "4", "8", "8", "6", "7", "1", "5", "0", "5", "8", "2", "0",
    "6", "8", "1", "9", "0", "8", "9", "0", "2", "0", "0", "0", "7",
    "0", "8", "3", "8", "3", "6", "7", "6", "2", "7", "3", "8", "5",
    "4", "8", "4", "5", "8", "1", "7", "7", "1", "1", "5", "3", "1",
    "7", "6", "4", "4", "7", "5", "7", "3", "0", "2", "7", "0", "0",
    "6", "9", "8", "5", "5", "5", "7", "1", "3", "6", "6", "9", "5",
    "9", "6", "2", "2", "8", "4", "2", "9", "1", "4", "8", "1", "9",
    "8", "6", "0", "8", "3", "4", "9", "3", "6", "4", "7", "5", "2",
    "9", "2", "7", "1", "9", "0", "7", "4", "1", "6", "8", "4", "4",
    "4", "3", "6", "5", "5", "1", "0", "7", "0", "4", "3", "4", "2",
    "7", "1", "1", "5", "5", "9", "6", "9", "9", "5", "0", "8", "0",
    "9", "3", "0", "4", "2", "8", "8", "0", "1", "7", "7", "9", "0",
    "4", "1", "7", "4", "4", "9", "7", "7", "9", "2">>

\* a digit string without its leading zeros
StripZeros(s) ==
    LET sig == {j \in 1..Len(s) : s[j] # "0"}
    IN  IF sig = {} THEN <<>> ELSE SubSeq(s, Least(sig), Len(s))

\* int(a) >= int(b) for digit strings without leading zeros: the longer one
\* is greater, equal lengths compare at the first digit that differs
DecimalGeq(a, b) ==
    LET diff == {j \in 1..Len(a) : a[j] # b[j]}
    IN  IF Len(a) # Len(b) THEN Len(a) > Len(b)
        ELSE IF diff = {} THEN TRUE
        ELSE DigitVal(a[Least(diff)]) > DigitVal(b[Least(diff)])

\* TRUE when `int(digits) / (10**dec_digits)` on line 29 raises OverflowError:
\* int(digits) >= (2^1024 - 2^970) * 10^dec_digits
CoordRaises(val, idig, ddig, zsup) ==
    /\ DotIndex(UnsignedDigits(val), 1) = 0
    /\ DecimalGeq(StripZeros(FixedDigits(val, idig, ddig, zsup)),
                  FloatOverflowDigits \o Zeros(ddig))

\* the value parse_gerber_coord returns when it does not raise
parse_gerber_coord(val, idig, ddig, zsup) ==
    LET sign   == IF StartsWith(val, <<"-">>) THEN <<-1, 1>> ELSE <<1, 1>>
        digits == UnsignedDigits(val)
        fixed  == FixedDigits(val, idig, ddig, zsup)
    IN  IF DotIndex(digits, 1) # 0
        THEN RMul(sign, FloatOfUnsigned(digits))
        ELSE RMul(sign, Rat(IntOf(fixed), Pow10(ddig)))

----------------------------------------------------------------------------
(* Regular expressions of the extractors *)

\* end (exclusive) of the longest run of digits of s that starts at index k
DigitRunEnd(s, k) ==
    LET stops == {j \in k..Len(s) : s[j] \notin Digits}
    IN  IF k > Len(s) THEN k
        ELSE IF stops = {} THEN Len(s) + 1 ELSE Least(stops)

\* [+\-]?\d*\.?\d+ matched at index k of s: the end (exclusive) of the match
\* the regex engine returns (greedy, with backtracking), 0 when none
NumberMatchEnd(s, k) ==
    LET p      == IF k <= Len(s) /\ s[k] \in {"+", "-"} THEN k + 1 ELSE k
        a      == DigitRunEnd(s, p)
        hasDot == a <= Len(s) /\ s[a] = "."
        b      == IF hasDot THEN DigitRunEnd(s, a + 1) ELSE a
    IN  IF hasDot /\ b > a + 1 THEN b
        ELSE IF a > p THEN a
        ELSE 0

\* re.search(rf"{letter}([+\-]?\d*\.?\d+)", s, flags=re.IGNORECASE):
\* group 1 of the leftmost match, None when there is no match
AxisSearch(letter, s, k) ==
    LET hits == {j \in k..Len(s) :
                   UpperChar(s[j]) = letter /\ NumberMatchEnd(s, j + 1) # 0}
    IN  IF hits = {} THEN None
        ELSE SubSeq(s, Least(hits) + 1, NumberMatchEnd(s, Least(hits) + 1) - 1)

axis(letter, line) == AxisSearch(letter, line, 1)

\* re.findall(r"G0?([123])", s): the captured digits, in order
RECURSIVE GFindAll(_, _)
GFindAll(s, k) ==
    LET g == NextChar(s, "G", k)
    IN  IF g > Len(s) THEN <<>>
        ELSE IF g + 2 <= Len(s) /\ s[g + 1] = "0" /\ s[g + 2] \in {"1", "2", "3"}
             THEN <<s[g + 2]>> \o GFindAll(s, g + 3)
        ELSE IF g + 1 <= Len(s) /\ s[g + 1] \in {"1", "2", "3"}
             THEN <<s[g + 1]>> \o GFindAll(s, g + 2)
        ELSE GFindAll(s, g + 1)

\* re.finditer(r"D0?(\d+)", s): int(group 1) of every match, in order
RECURSIVE DFindIter(_, _)
DFindIter(s, k) ==
    LET d == NextChar(s, "D", k)
    IN  IF d > Len(s) THEN <<>>
        ELSE IF d + 2 <= Len(s) /\ s[d + 1] = "0" /\ s[d + 2] \in Digits
             THEN <<IntOf(SubSeq(s, d + 2, DigitRunEnd(s, d + 2) - 1))>>
                      \o DFindIter(s, DigitRunEnd(s, d + 2))
        ELSE IF d + 1 <= Len(s) /\ s[d + 1] \in Digits
             THEN <<IntOf(SubSeq(s, d + 1, DigitRunEnd(s, d + 1) - 1))>>
                      \o DFindIter(s, DigitRunEnd(s, d + 1))
        ELSE DFindIter(s, d + 1)

\* re.match(r"^FS([LTD])A?X(\d)(\d)Y(\d)(\d)$", param): the groups, or None
FsMatch(param) ==
    LET rest == IF Len(param) >= 4 /\ param[4] = "A"
                THEN SubSeq(param, 5, Len(param)) ELSE SubSeq(param, 4, Len(param))
    IN  IF /\ Len(param) >= 3
           /\ param[1] = "F" /\ param[2] = "S" /\ param[3] \in {"L", "T", "D"}
           /\ Len(rest) = 6
           /\ rest[1] = "X" /\ rest[2] \in Digits /\ rest[3] \in Digits
           /\ rest[4] = "Y" /\ rest[5] \in Digits /\ rest[6] \in Digits
        THEN <<param[3], rest[2], rest[3], rest[5], rest[6]>>
        ELSE None

----------------------------------------------------------------------------
(* Geometry of parse_gerber_outline *)

\* 25.4 and 1.0
InchFactor == <<127, 5>>
MmFactor == <<1, 1>>

\* |a|
RAbs(a) == <<Abs(a[1]), a[2]>>

\* math.hypot(dx, dy), a non-negative real, kept as the pair of leg lengths
\* it is the hypotenuse of
Hypot(dx, dy) == <<"hypot", RAbs(dx), RAbs(dy)>>

\* r * factor for r a value of Hypot and factor > 0
ScaleRoot(r, factor) == <<"hypot", RMul(r[2], factor), RMul(r[3], factor)>>

\* 10^6 and 2016: 1 / (2016 * 10^12) is just below 2^-45 degrees in radians,
\* half the spacing of the floats below 360.0
Million == 1000000
RoundingBound == 2016

\* TRUE when degrees(atan2(-ay, ax)), a negative angle, is so small that the
\* float sum 360.0 + angle of the `%` operator rounds to 360.0:
\* ay / ax <= 1 / (RoundingBound * 10^12), decided on the integer parts of
\* 1 / ay and ax
RoundsTo360(ay, ax) ==
    ((ay[2] \div ay[1]) \div Million) * ((ax[1] \div ax[2]) \div Million) >= RoundingBound

\* math.degrees(math.atan2(dy, dx)) % 360.0: exact on the eight compass
\* directions and for the zero vector (atan2(0, 0) = 0), 360.0 for a
\* direction so little below the positive x axis that the float result
\* rounds up; any other angle is kept as the vector <<"atan2", dy, dx>> it
\* is the direction of
Atan2Deg(dy, dx) ==
    CASE dx[1] = 0 /\ dy[1] = 0 -> <<0, 1>>
      [] dx[1] > 0 /\ dy[1] = 0 -> <<0, 1>>
      [] dx[1] < 0 /\ dy[1] = 0 -> <<180, 1>>
      [] dx[1] = 0 /\ dy[1] > 0 -> <<90, 1>>
      [] dx[1] = 0 /\ dy[1] < 0 -> <<270, 1>>
      [] dx[1] > 0 /\ dy[1] > 0 /\ RAbs(dx) = RAbs(dy) -> <<45, 1>>
      [] dx[1] < 0 /\ dy[1] > 0 /\ RAbs(dx) = RAbs(dy) -> <<135, 1>>
      [] dx[1] < 0 /\ dy[1] < 0 /\ RAbs(dx) = RAbs(dy) -> <<225, 1>>
      [] dx[1] > 0 /\ dy[1] < 0 /\ RAbs(dx) = RAbs(dy) -> <<315, 1>>
      [] dx[1] > 0 /\ dy[1] < 0 /\ RoundsTo360(RAbs(dy), RAbs(dx)) -> <<360, 1>>
      [] OTHER -> <<"atan2", dy, dx>>

----------------------------------------------------------------------------
(* Input lines of the Gerber extractor *)

\* '  '
GL_blank == <<" ", " ">>
\* 'G04 c*'
GL_comment == <<"G", "0", "4", " ", "c", "*">>
\* '%MOIN%'
GL_moin == <<"%", "M", "O", "I", "N", "%">>
\* '%MOIN*%'
GL_moin_star == <<"%", "M", "O", "I", "N", "*", "%">>
\* '%MOMM%*'
GL_momm == <<"%", "M", "O", "M", "M", "%", "*">>
\* '%FSLAX25Y25%'
GL_fs == <<"%", "F", "S", "L", "A", "X", "2", "5", "Y", "2", "5", "%">>
\* '%ADD10%'
GL_other_param == <<"%", "A", "D", "D", "1", "0", "%">>
\* 'X0Y0D02*'
GL_move_origin == <<"X", "0", "Y", "0", "D", "0", "2", "*">>
\* 'X0Y0D01*'
GL_draw_origin == <<"X", "0", "Y", "0", "D", "0", "1", "*">>
\* 'X10000000Y0D01*'
GL_draw_x10 == <<"X", "1", "0", "0", "0", "0", "0", "0", "0", "Y", "0", "D", "0", "1", "*">>
\* 'Y5000000D03*'
GL_flash_y5 == <<"Y", "5", "0", "0", "0", "0", "0", "0", "D", "0", "3", "*">>
\* 'X20000000*'
GL_noop_x20 == <<"X", "2", "0", "0", "0", "0", "0", "0", "0", "*">>
\* 'G01*'
GL_g01 == <<"G", "0", "1", "*">>
\* 'G02X0Y10000000I-10000000J0D01*'
GL_cw_arc == <<"G", "0", "2", "X", "0", "Y", "1", "0", "0", "0", "0", "0", "0", "0", "I", "-", "1", "0", "0", "0", "0", "0", "0", "0", "J", "0", "D", "0", "1", "*">>
\* 'G03*'
GL_ccw == <<"G", "0", "3", "*">>

GerberLines == {GL_blank, GL_comment, GL_moin, GL_moin_star, GL_momm, GL_fs,
                GL_other_param, GL_move_origin, GL_draw_origin, GL_draw_x10,
                GL_flash_y5, GL_noop_x20, GL_g01, GL_cw_arc, GL_ccw}

\* lines of arc commands
\* 'X10000000Y10000000D02*'
GL_move_1010 == <<"X", "1", "0", "0", "0", "0", "0", "0", "0", "Y", "1", "0", "0", "0", "0", "0", "0", "0", "D", "0", "2", "*">>
\* '%FSLAX25Y34%'
GL_fs_xy == <<"%", "F", "S", "L", "A", "X", "2", "5", "Y", "3", "4", "%">>
\* 'G03X0Y0I1000000J1000000D01*'
GL_ccw_ij == <<"G", "0", "3", "X", "0", "Y", "0", "I", "1", "0", "0", "0", "0", "0", "0", "J", "1", "0", "0", "0", "0", "0", "0", "D", "0", "1", "*">>
\* 'G03X0Y0J-10000000D01*'
GL_ccw_j == <<"G", "0", "3", "X", "0", "Y", "0", "J", "-", "1", "0", "0", "0", "0", "0", "0", "0", "D", "0", "1", "*">>
\* 'G03X0Y0I-80000000.0J.00000001D01*'
GL_ccw_flat == <<"G", "0", "3", "X", "0", "Y", "0", "I", "-", "8", "0", "0", "0", "0", "0", "0", "0", ".", "0", "J", ".", "0", "0", "0", "0", "0", "0", "0", "1", "D", "0", "1", "*">>

ArcLines == {GL_move_origin, GL_move_1010, GL_fs_xy, GL_draw_x10, GL_cw_arc,
             GL_ccw, GL_ccw_ij, GL_ccw_j, GL_ccw_flat}

\* lines of parameter blocks in the three places of the block terminator, of
\* several codes per line and of codes the extractor has no use for
\* '%MOIN%*'
GL_moin_after == <<"%", "M", "O", "I", "N", "%", "*">>
\* '%MOMM*%'
GL_momm_star == <<"%", "M", "O", "M", "M", "*", "%">>
\* '%FSLAX25Y25*%'
GL_fs_star == <<"%", "F", "S", "L", "A", "X", "2", "5", "Y", "2", "5", "*", "%">>
\* '%FSLAX25Y25%*'
GL_fs_after == <<"%", "F", "S", "L", "A", "X", "2", "5", "Y", "2", "5", "%", "*">>
\* '%FSLAX25Y00%'
GL_fs_y00 == <<"%", "F", "S", "L", "A", "X", "2", "5", "Y", "0", "0", "%">>
\* 'G36*'
GL_g36 == <<"G", "3", "6", "*">>
\* 'G20*'
GL_g20 == <<"G", "2", "0", "*">>
\* 'G75*'
GL_g75 == <<"G", "7", "5", "*">>
\* 'G01G03*'
GL_g01g03 == <<"G", "0", "1", "G", "0", "3", "*">>
\* 'G03G01X10000000Y0D01*'
GL_g03g01_draw == <<"G", "0", "3", "G", "0", "1", "X", "1", "0", "0", "0", "0", "0", "0", "0", "Y", "0", "D", "0", "1", "*">>
\* 'X0Y0D01D02*'
GL_d01d02 == <<"X", "0", "Y", "0", "D", "0", "1", "D", "0", "2", "*">>
\* 'X10000000Y0D02D01*'
GL_d02d01 == <<"X", "1", "0", "0", "0", "0", "0", "0", "0", "Y", "0", "D", "0", "2", "D", "0", "1", "*">>
\* 'D10*'
GL_d10 == <<"D", "1", "0", "*">>
\* 'X0Y5000000D02D10*'
GL_d02d10 == <<"X", "0", "Y", "5", "0", "0", "0", "0", "0", "0", "D", "0", "2", "D", "1", "0", "*">>
\* 'Y2' + 308 * '0' + 'D02*'
GL_move_huge == <<"Y", "2">> \o Zeros(308) \o <<"D", "0", "2", "*">>

SyntaxLines == {GL_moin, GL_moin_after, GL_moin_star, GL_momm, GL_momm_star,
                GL_fs, GL_fs_star, GL_fs_after, GL_fs_y00, GL_other_param,
                GL_move_origin, GL_draw_x10, GL_move_huge,
                GL_g36, GL_g20, GL_g75, GL_g01g03, GL_g03g01_draw,
                GL_d01d02, GL_d02d01, GL_d10, GL_d02d10}

----------------------------------------------------------------------------
(* parse_gerber_outline *)

NoDcode == 0

\* the line after strip() and the removal of one trailing "*"
StripLine(l) ==
    LET s == Strip(l)
    IN  IF EndsWith(s, <<"*">>) THEN SubSeq(s, 1, Len(s) - 1) ELSE s

\* `if not line or line.startswith("G04"): continue`
IsSkipped(l) == Strip(l) = <<>> \/ StartsWith(Strip(l), <<"G", "0", "4">>)

\* `if line.startswith("%") and line.endswith("%")`
IsParamBlock(l) == StartsWith(StripLine(l), <<"%">>) /\ EndsWith(StripLine(l), <<"%">>)

\* line[1:-1].upper()
ParamOf(l) == Upper(SubSeq(StripLine(l), 2, Len(StripLine(l)) - 1))

\* the draw mode after the loop over the G codes of the line
RECURSIVE ModeAfter(_, _)
ModeAfter(m, gcodes) ==
    IF gcodes = <<>> THEN m
    ELSE ModeAfter(CASE Head(gcodes) = "1" -> "LINEAR"
                     [] Head(gcodes) = "2" -> "CW"
                     [] Head(gcodes) = "3" -> "CCW", Tail(gcodes))

\* dcode after the loop over the D codes of the line
RECURSIVE DcodeAfter(_, _)
DcodeAfter(d, vals) ==
    IF vals = <<>> THEN d
    ELSE DcodeAfter(IF Head(vals) \in {1, 2, 3} THEN Head(vals) ELSE d, Tail(vals))

\* the G and D codes of a command line, as lines 84-97 resolve them
LineMode(m, l) == ModeAfter(m, GFindAll(Upper(StripLine(l)), 1))
LineOp(l) == DcodeAfter(NoDcode, DFindIter(Upper(StripLine(l)), 1))

\* mutant: a flash draws as well
CanDraw_flash(d, cx0, cy0, nx, ny) == d \in {1, 3} /\ None \notin {cx0, cy0, nx, ny}

\* `if dcode == 1 and None not in (cur_x, cur_y, next_x, next_y)`
CanDraw(d, cx0, cy0, nx, ny) == d = 1 /\ None \notin {cx0, cy0, nx, ny}

\* mutant: a Line runs from the next position back to the current one
DrawnEntity_reversed(m, cx0, cy0, nx, ny, i_raw, j_raw, xi, xd, yi, yd, zsup) ==
    IF m = "LINEAR" THEN <<"LINE", nx, ny, cx0, cy0>>
    ELSE <<"ARC", cx0, cy0, Hypot(<<0, 1>>, <<0, 1>>), <<0, 1>>, <<0, 1>>>>

\* mutant: the J offset is decoded with the X-axis format
DrawnEntity_jAsX(m, cx0, cy0, nx, ny, i_raw, j_raw, xi, xd, yi, yd, zsup) ==
    IF m = "LINEAR" THEN <<"LINE", cx0, cy0, nx, ny>>
    ELSE LET i_off  == IF i_raw # None THEN parse_gerber_coord(i_raw, xi, xd, zsup) ELSE <<0, 1>>
             j_off  == IF j_raw # None THEN parse_gerber_coord(j_raw, xi, xd, zsup) ELSE <<0, 1>>
             cx     == RAdd(cx0, i_off)
             cy     == RAdd(cy0, j_off)
             radius == Hypot(RSub(cx0, cx), RSub(cy0, cy))
             start_angle == Atan2Deg(RSub(cy0, cy), RSub(cx0, cx))
             end_angle   == Atan2Deg(RSub(ny, cy), RSub(nx, cx))
         IN  IF m = "CW" THEN <<"ARC", cx, cy, radius, end_angle, start_angle>>
             ELSE <<"ARC", cx, cy, radius, start_angle, end_angle>>

\* the entity a draw appends
DrawnEntity(m, cx0, cy0, nx, ny, i_raw, j_raw, xi, xd, yi, yd, zsup) ==
    IF m = "LINEAR" THEN <<"LINE", cx0, cy0, nx, ny>>
    ELSE LET i_off  == IF i_raw # None THEN parse_gerber_coord(i_raw, xi, xd, zsup) ELSE <<0, 1>>
             j_off  == IF j_raw # None THEN parse_gerber_coord(j_raw, yi, yd, zsup) ELSE <<0, 1>>
             cx     == RAdd(cx0, i_off)
             cy     == RAdd(cy0, j_off)
             radius == Hypot(RSub(cx0, cx), RSub(cy0, cy))
             start_angle == Atan2Deg(RSub(cy0, cy), RSub(cx0, cx))
             end_angle   == Atan2Deg(RSub(ny, cy), RSub(nx, cx))
         IN  IF m = "CW" THEN <<"ARC", cx, cy, radius, end_angle, start_angle>>
             ELSE <<"ARC", cx, cy, radius, start_angle, end_angle>>

\* mutant: the factors of the two unit modes are exchanged
Factor_swapped(u) == IF u = "IN" THEN MmFactor ELSE InchFactor

\* `factor = 25.4 if units == "IN" else 1.0`
Factor(u) == IF u = "IN" THEN InchFactor ELSE MmFactor

\* mutant: the angles of an Arc are scaled like its lengths
ConvertEntity_scalesAngles(e, factor) ==
    IF e[1] = "LINE"
    THEN <<"LINE", RMul(e[2], factor), RMul(e[3], factor), RMul(e[4], factor), RMul(e[5], factor)>>
    ELSE <<"ARC", RMul(e[2], factor), RMul(e[3], factor), ScaleRoot(e[4], factor),
           RMul(e[5], factor), RMul(e[6], factor)>>

\* one entity of `converted`
ConvertEntity(e, factor) ==
    IF e[1] = "LINE"
    THEN <<"LINE", RMul(e[2], factor), RMul(e[3], factor), RMul(e[4], factor), RMul(e[5], factor)>>
    ELSE <<"ARC", RMul(e[2], factor), RMul(e[3], factor), ScaleRoot(e[4], factor), e[5], e[6]>>

GerberInit ==
    /\ pc = "scan" /\ line_no = 0 /\ raw_line = <<>>
    /\ x_int = 4 /\ x_dec = 6 /\ y_int = 4 /\ y_dec = 6
    /\ zero_suppression = "L" /\ units = "MM" /\ mode = "LINEAR"
    /\ cur_x = None /\ cur_y = None /\ next_x = None /\ next_y = None
    /\ dcode = NoDcode /\ entities = <<>> /\ converted = <<>>

\* a blank line or a G04 comment: `continue`
GerberSkip(l) ==
    /\ pc = "scan" /\ line_no < MaxLines
    /\ IsSkipped(l)
    /\ raw_line' = l /\ line_no' = line_no + 1
    /\ UNCHANGED <<pc, x_int, x_dec, y_int, y_dec, zero_suppression, units, mode,
                   cur_x, cur_y, next_x, next_y, dcode, entities, converted>>
    /\ UNCHANGED <<dvars, cvars, wvars, read_units>>

\* a %...% parameter block
GerberParam(l) ==
    /\ pc = "scan" /\ line_no < MaxLines
    /\ ~IsSkipped(l) /\ IsParamBlock(l)
    /\ raw_line' = l /\ line_no' = line_no + 1
    /\ LET param == ParamOf(l)
           fs    == FsMatch(param)
       IN  IF fs # None
           THEN /\ zero_suppression' = fs[1]
                /\ x_int' = DigitVal(fs[2]) /\ x_dec' = DigitVal(fs[3])
                /\ y_int' = DigitVal(fs[4]) /\ y_dec' = DigitVal(fs[5])
                /\ UNCHANGED units
           ELSE IF param = <<"M", "O", "I", "N">>
           THEN /\ units' = "IN"
                /\ UNCHANGED <<x_int, x_dec, y_int, y_dec, zero_suppression>>
           ELSE IF param = <<"M", "O", "M", "M">>
           THEN /\ units' = "MM"
                /\ UNCHANGED <<x_int, x_dec, y_int, y_dec, zero_suppression>>
           ELSE UNCHANGED <<x_int, x_dec, y_int, y_dec, zero_suppression, units>>
    /\ UNCHANGED <<pc, mode, cur_x, cur_y, next_x, next_y, dcode, entities, converted>>
    /\ UNCHANGED <<dvars, cvars, wvars, read_units>>

\* a command line; a call of parse_gerber_coord that raises ends the function
GerberCommand(l) ==
    /\ pc = "scan" /\ line_no < MaxLines
    /\ ~IsSkipped(l) /\ ~IsParamBlock(l)
    /\ raw_line' = l /\ line_no' = line_no + 1
    /\ LET line  == StripLine(l)
           m     == LineMode(mode, l)
           d     == LineOp(l)
           x_raw == axis("X", line)
           y_raw == axis("Y", line)
           i_raw == axis("I", line)
           j_raw == axis("J", line)
           x_raises == x_raw # None /\ CoordRaises(x_raw, x_int, x_dec, zero_suppression)
           y_raises == y_raw # None /\ CoordRaises(y_raw, y_int, y_dec, zero_suppression)
           i_raises == i_raw # None /\ CoordRaises(i_raw, x_int, x_dec, zero_suppression)
           j_raises == j_raw # None /\ CoordRaises(j_raw, y_int, y_dec, zero_suppression)
           nx    == IF x_raw # None
                    THEN parse_gerber_coord(x_raw, x_int, x_dec, zero_suppression) ELSE cur_x
           ny    == IF y_raw # None
                    THEN parse_gerber_coord(y_raw, y_int, y_dec, zero_suppression) ELSE cur_y
       IN  /\ mode' = m /\ dcode' = d
           /\ IF x_raises
              THEN /\ pc' = "raised"
                   /\ UNCHANGED <<next_x, next_y, cur_x, cur_y, entities>>
              ELSE IF y_raises
              THEN /\ pc' = "raised" /\ next_x' = nx
                   /\ UNCHANGED <<next_y, cur_x, cur_y, entities>>
              ELSE /\ next_x' = nx /\ next_y' = ny
                   /\ IF d = 2
                      THEN /\ cur_x' = nx /\ cur_y' = ny
                           /\ UNCHANGED <<pc, entities>>
                      ELSE IF CanDraw(d, cur_x, cur_y, nx, ny)
                      THEN IF m # "LINEAR" /\ (i_raises \/ j_raises)
                           THEN /\ pc' = "raised"
                                /\ UNCHANGED <<cur_x, cur_y, entities>>
                           ELSE /\ entities' = Append(entities,
                                      DrawnEntity(m, cur_x, cur_y, nx, ny, i_raw, j_raw,
                                                  x_int, x_dec, y_int, y_dec, zero_suppression))
                                /\ cur_x' = nx /\ cur_y' = ny
                                /\ UNCHANGED pc
                      ELSE UNCHANGED <<pc, cur_x, cur_y, entities>>
           /\ read_units' = IF {x_raw, y_raw, i_raw, j_raw} # {None}
                            THEN read_units \cup {units} ELSE read_units
    /\ UNCHANGED <<x_int, x_dec, y_int, y_dec, zero_suppression, units, converted>>
    /\ UNCHANGED <<dvars, cvars, wvars>>

\* after the last line: the conversion loop and `return converted`
GerberFinish ==
    /\ pc = "scan"
    /\ converted' = [k \in 1..Len(entities) |-> ConvertEntity(entities[k], Factor(units))]
    /\ pc' = "done"
    /\ UNCHANGED <<line_no, raw_line, x_int, x_dec, y_int, y_dec, zero_suppression,
                   units, mode, cur_x, cur_y, next_x, next_y, dcode, entities>>
    /\ UNCHANGED <<dvars, cvars, wvars, read_units>>

GerberNext ==
    \/ \E l \in GerberLines : GerberSkip(l)
    \/ \E l \in GerberLines : GerberParam(l)
    \/ \E l \in GerberLines : GerberCommand(l)
    \/ GerberFinish

\* parse_gerber_outline on a text of arc commands
ArcNext ==
    \/ \E l \in ArcLines : GerberParam(l)
    \/ \E l \in ArcLines : GerberCommand(l)
    \/ GerberFinish

\* parse_gerber_outline on a text of SyntaxLines
SyntaxNext ==
    \/ \E l \in SyntaxLines : GerberParam(l)
    \/ \E l \in SyntaxLines : GerberCommand(l)
    \/ GerberFinish

NoTool == -1

\* the state of a function that is not running
GerberIdle ==
    /\ pc = "idle" /\ line_no = 0 /\ raw_line = <<>>
    /\ x_int = 4 /\ x_dec = 6 /\ y_int = 4 /\ y_dec = 6
    /\ zero_suppression = "L" /\ units = "MM" /\ mode = "LINEAR"
    /\ cur_x = None /\ cur_y = None /\ next_x = None /\ next_y = None
    /\ dcode = NoDcode /\ entities = <<>> /\ converted = <<>>

DrillIdle ==
    /\ dpc = "idle" /\ dline_no = 0 /\ raw = <<>>
    /\ min_hole_size_mm = <<3, 1>> /\ max_hole_size_mm = None
    /\ drill_units = "IN" /\ tool_diameter = <<>> /\ current_tool = NoTool
    /\ current_x = None /\ current_y = None /\ holes = <<>>

CoordIdle ==
    /\ cpc = "idle" /\ value = <<>> /\ int_digits = 0 /\ dec_digits = 0
    /\ zs = "L" /\ result = None

DxfIdle == wpc = "idle" /\ outline = <<>> /\ hole_list = <<>> /\ parts = <<>>

NoReads == read_units = {}

Init == GerberInit /\ DrillIdle /\ CoordIdle /\ DxfIdle /\ NoReads
Next == GerberNext
Spec == Init /\ [][Next]_vars
SpecArc == Init /\ [][ArcNext]_vars
SpecSyntax == Init /\ [][SyntaxNext]_vars

----------------------------------------------------------------------------
(* Input lines and parameters of the drill extractor *)

\* ''
DL_blank == <<>>
\* '; c'
DL_comment == <<";", " ", "c">>
\* 'INCH,TZ'
DL_inch == <<"I", "N", "C", "H", ",", "T", "Z">>
\* 'METRIC'
DL_metric == <<"M", "E", "T", "R", "I", "C">>
\* 'M48'
DL_m48 == <<"M", "4", "8">>
\* 'T01C3.000000'
DL_def1 == <<"T", "0", "1", "C", "3", ".", "0", "0", "0", "0", "0", "0">>
\* 'T2C0.125'
DL_def2 == <<"T", "2", "C", "0", ".", "1", "2", "5">>
\* 'T01'
DL_sel1 == <<"T", "0", "1">>
\* 'T2'
DL_sel2 == <<"T", "2">>
\* 'T3'
DL_sel3 == <<"T", "3">>
\* 'X0Y0'
DL_xy0 == <<"X", "0", "Y", "0">>
\* 'X1.5'
DL_x1 == <<"X", "1", ".", "5">>
\* 'Y-2'
DL_y2 == <<"Y", "-", "2">>
\* 'G85'
DL_junk == <<"G", "8", "5">>

DrillLines == {DL_blank, DL_comment, DL_inch, DL_metric, DL_m48, DL_def1, DL_def2,
               DL_sel1, DL_sel2, DL_sel3, DL_xy0, DL_x1, DL_y2, DL_junk}

\* --min (default 3.0) and --max (default None), as main() validates them
MinChoices == {<<2, 1>>, <<3, 1>>, <<31, 10>>}
MaxChoices == {None, <<3, 1>>, <<4, 1>>}

----------------------------------------------------------------------------
(* parse_drill_file *)

\* re.match(r"^T(\d+)C([+\-]?\d*\.?\d+)$", upper): <<group 1, group 2>> or None
ToolDefMatch(upper) ==
    LET e == DigitRunEnd(upper, 2)
    IN  IF /\ Len(upper) >= 1 /\ upper[1] = "T"
           /\ e > 2
           /\ e <= Len(upper) /\ upper[e] = "C"
           /\ NumberMatchEnd(upper, e + 1) = Len(upper) + 1
        THEN <<SubSeq(upper, 2, e - 1), SubSeq(upper, e + 1, Len(upper))>>
        ELSE None

\* re.match(r"^T(\d+)$", upper): group 1 or None
ToolSelectMatch(upper) ==
    IF /\ Len(upper) >= 2 /\ upper[1] = "T"
       /\ DigitRunEnd(upper, 2) = Len(upper) + 1
    THEN SubSeq(upper, 2, Len(upper))
    ELSE None

DrillIsSkipped(l) == Strip(l) = <<>> \/ StartsWith(Strip(l), <<";">>)
DrillUpper(l) == Upper(Strip(l))
IsInch(l) == StartsWith(DrillUpper(l), <<"I", "N", "C", "H">>)
IsMetric(l) == StartsWith(DrillUpper(l), <<"M", "E", "T", "R", "I", "C">>)
IsToolDef(l) == ToolDefMatch(DrillUpper(l)) # None
IsToolSelect(l) == ToolSelectMatch(DrillUpper(l)) # None
IsNoop(l) ==
    \/ DrillUpper(l) \in {<<"M", "4", "8">>, <<"%">>, <<"G", "9", "0">>,
                          <<"G", "0", "5">>, <<"M", "3", "0">>}
    \/ StartsWith(DrillUpper(l), <<"F", "M", "A", "T">>)
IsCoord(l) == StartsWith(DrillUpper(l), <<"X">>) \/ StartsWith(DrillUpper(l), <<"Y">>)

\* tool_diameter[t] = d
SetTool(table, t, d) == [k \in DOMAIN table \cup {t} |-> IF k = t THEN d ELSE table[k]]

\* mutant: the diameter is converted to millimetres when it is registered
StoredDiameter_mm(literal, u) == RMul(FloatOf(literal), Factor(u))

\* float(m.group(2)): the diameter a tool definition stores
StoredDiameter(literal, u) == FloatOf(literal)

\* lines 191-194: TRUE when the coordinate line reaches the filter
CanEmit(tool, x, y, table) ==
    /\ tool # NoTool /\ x # None /\ y # None
    /\ tool \in DOMAIN table

\* mutant: a position that already has an equal record is not recorded again
EmitHole_dedup(hs, rec) ==
    IF \E k \in 1..Len(hs) : hs[k] = rec THEN hs ELSE Append(hs, rec)

\* holes.append(...)
EmitHole(hs, rec) == Append(hs, rec)

\* mutant: the minimum is exclusive
PassesFilter_strict(diameter_mm, lo, hi) ==
    /\ RLess(lo, diameter_mm)
    /\ ~(hi # None /\ RLess(hi, diameter_mm))

\* the filter of lines 198-201: TRUE when the hole is kept
PassesFilter(diameter_mm, lo, hi) ==
    /\ ~RLess(diameter_mm, lo)
    /\ ~(hi # None /\ RLess(hi, diameter_mm))

DrillInit ==
    /\ dpc = "scan" /\ dline_no = 0 /\ raw = <<>>
    /\ min_hole_size_mm \in MinChoices
    /\ max_hole_size_mm \in MaxChoices
    /\ max_hole_size_mm # None => ~RLess(max_hole_size_mm, min_hole_size_mm)
    /\ drill_units = "IN" /\ tool_diameter = <<>> /\ current_tool = NoTool
    /\ current_x = None /\ current_y = None /\ holes = <<>>

DrillStep(l) == dpc = "scan" /\ dline_no < MaxDrillLines /\ raw' = l /\ dline_no' = dline_no + 1

\* a blank line or a ; comment
DrillSkip(l) ==
    /\ DrillStep(l)
    /\ DrillIsSkipped(l)
    /\ UNCHANGED <<dpc, min_hole_size_mm, max_hole_size_mm, drill_units, tool_diameter,
                   current_tool, current_x, current_y, holes>>
    /\ UNCHANGED <<gvars, cvars, wvars, read_units>>

\* INCH... or METRIC...
DrillUnits(l) ==
    /\ DrillStep(l)
    /\ ~DrillIsSkipped(l) /\ (IsInch(l) \/ IsMetric(l))
    /\ drill_units' = IF IsInch(l) THEN "IN" ELSE "MM"
    /\ UNCHANGED <<dpc, min_hole_size_mm, max_hole_size_mm, tool_diameter,
                   current_tool, current_x, current_y, holes>>
    /\ UNCHANGED <<gvars, cvars, wvars, read_units>>

\* T<n>C<diameter>
DrillToolDef(l) ==
    /\ DrillStep(l)
    /\ ~DrillIsSkipped(l) /\ ~IsInch(l) /\ ~IsMetric(l) /\ IsToolDef(l)
    /\ LET m == ToolDefMatch(DrillUpper(l))
       IN  tool_diameter' = SetTool(tool_diameter, IntOf(m[1]), StoredDiameter(m[2], drill_units))
    /\ read_units' = read_units \cup {drill_units}
    /\ UNCHANGED <<dpc, min_hole_size_mm, max_hole_size_mm, drill_units,
                   current_tool, current_x, current_y, holes>>
    /\ UNCHANGED <<gvars, cvars, wvars>>

\* T<n>
DrillToolSelect(l) ==
    /\ DrillStep(l)
    /\ ~DrillIsSkipped(l) /\ ~IsInch(l) /\ ~IsMetric(l) /\ ~IsToolDef(l) /\ IsToolSelect(l)
    /\ current_tool' = IntOf(ToolSelectMatch(DrillUpper(l)))
    /\ UNCHANGED <<dpc, min_hole_size_mm, max_hole_size_mm, drill_units, tool_diameter,
                   current_x, current_y, holes>>
    /\ UNCHANGED <<gvars, cvars, wvars, read_units>>

\* M48, %, G90, G05, M30, FMAT...
DrillNoop(l) ==
    /\ DrillStep(l)
    /\ ~DrillIsSkipped(l) /\ ~IsInch(l) /\ ~IsMetric(l) /\ ~IsToolDef(l) /\ ~IsToolSelect(l)
    /\ IsNoop(l)
    /\ UNCHANGED <<dpc, min_hole_size_mm, max_hole_size_mm, drill_units, tool_diameter,
                   current_tool, current_x, current_y, holes>>
    /\ UNCHANGED <<gvars, cvars, wvars, read_units>>

\* mutant: a coordinate line that emits no hole leaves the position alone
DrillCoord_emitOnly(l) ==
    /\ DrillStep(l)
    /\ ~DrillIsSkipped(l) /\ ~IsInch(l) /\ ~IsMetric(l) /\ ~IsToolDef(l) /\ ~IsToolSelect(l)
    /\ ~IsNoop(l) /\ IsCoord(l)
    /\ LET mx == axis("X", Strip(l))
           my == axis("Y", Strip(l))
           x  == IF mx # None THEN FloatOf(mx) ELSE current_x
           y  == IF my # None THEN FloatOf(my) ELSE current_y
           factor == Factor(drill_units)
       IN  /\ read_units' = IF {mx, my} # {None}
                            THEN read_units \cup {drill_units} ELSE read_units
           /\ IF ~CanEmit(current_tool, x, y, tool_diameter)
              THEN UNCHANGED <<holes, current_x, current_y>>
              ELSE LET diameter_mm == RMul(tool_diameter[current_tool], factor)
                   IN  /\ current_x' = x /\ current_y' = y
                       /\ IF PassesFilter(diameter_mm, min_hole_size_mm, max_hole_size_mm)
                          THEN holes' = EmitHole(holes, <<RMul(x, factor), RMul(y, factor), diameter_mm>>)
                          ELSE UNCHANGED holes
    /\ UNCHANGED <<dpc, min_hole_size_mm, max_hole_size_mm, drill_units, tool_diameter,
                   current_tool>>
    /\ UNCHANGED <<gvars, cvars, wvars>>

\* a line that starts with X or Y
DrillCoord(l) ==
    /\ DrillStep(l)
    /\ ~DrillIsSkipped(l) /\ ~IsInch(l) /\ ~IsMetric(l) /\ ~IsToolDef(l) /\ ~IsToolSelect(l)
    /\ ~IsNoop(l) /\ IsCoord(l)
    /\ LET mx == axis("X", Strip(l))
           my == axis("Y", Strip(l))
           x  == IF mx # None THEN FloatOf(mx) ELSE current_x
           y  == IF my # None THEN FloatOf(my) ELSE current_y
           factor == Factor(drill_units)
       IN  /\ current_x' = x /\ current_y' = y
           /\ read_units' = IF {mx, my} # {None}
                            THEN read_units \cup {drill_units} ELSE read_units
           /\ IF ~CanEmit(current_tool, x, y, tool_diameter)
              THEN UNCHANGED holes
              ELSE LET diameter_mm == RMul(tool_diameter[current_tool], factor)
                   IN  IF PassesFilter(diameter_mm, min_hole_size_mm, max_hole_size_mm)
                       THEN holes' = EmitHole(holes, <<RMul(x, factor), RMul(y, factor), diameter_mm>>)
                       ELSE UNCHANGED holes
    /\ UNCHANGED <<dpc, min_hole_size_mm, max_hole_size_mm, drill_units, tool_diameter,
                   current_tool>>
    /\ UNCHANGED <<gvars, cvars, wvars>>

\* any other line falls through the loop body
DrillOther(l) ==
    /\ DrillStep(l)
    /\ ~DrillIsSkipped(l) /\ ~IsInch(l) /\ ~IsMetric(l) /\ ~IsToolDef(l) /\ ~IsToolSelect(l)
    /\ ~IsNoop(l) /\ ~IsCoord(l)
    /\ UNCHANGED <<dpc, min_hole_size_mm, max_hole_size_mm, drill_units, tool_diameter,
                   current_tool, current_x, current_y, holes>>
    /\ UNCHANGED <<gvars, cvars, wvars, read_units>>

\* `return holes`
DrillReturn ==
    /\ dpc = "scan"
    /\ dpc' = "done"
    /\ UNCHANGED <<dline_no, raw, min_hole_size_mm, max_hole_size_mm, drill_units,
                   tool_diameter, current_tool, current_x, current_y, holes>>
    /\ UNCHANGED <<gvars, cvars, wvars, read_units>>

DrillNext ==
    \/ \E l \in DrillLines : DrillSkip(l)
    \/ \E l \in DrillLines : DrillUnits(l)
    \/ \E l \in DrillLines : DrillToolDef(l)
    \/ \E l \in DrillLines : DrillToolSelect(l)
    \/ \E l \in DrillLines : DrillNoop(l)
    \/ \E l \in DrillLines : DrillCoord(l)
    \/ \E l \in DrillLines : DrillOther(l)
    \/ DrillReturn

DrillSpecInit == GerberIdle /\ DrillInit /\ CoordIdle /\ DxfIdle /\ NoReads
SpecDrill == DrillSpecInit /\ [][DrillNext]_vars

\* one call of either extractor, as main() makes them
ExtractInit ==
    \/ GerberInit /\ DrillIdle /\ CoordIdle /\ DxfIdle /\ NoReads
    \/ GerberIdle /\ DrillInit /\ CoordIdle /\ DxfIdle /\ NoReads
ExtractNext == GerberNext \/ DrillNext
SpecExtract == ExtractInit /\ [][ExtractNext]_vars

----------------------------------------------------------------------------
(* parse_gerber_coord on its own: the arguments are drawn from bounded sets *)

CoordDigits == {"0", "1", "7"}

\* the digit strings of length 1..MaxLen over CoordDigits
DigitTokens == UNION {[1..n -> CoordDigits] : n \in 1..MaxLen}

\* tokens as axis() captures them: optionally signed, optionally decimal
CoordTokens ==
    DigitTokens
      \cup {<<"-">> \o t : t \in DigitTokens}
      \cup {<<"+">> \o t : t \in DigitTokens}
      \cup {<<"1", ".", "5">>, <<"-", ".", "5">>}

\* zero_suppression as FS([LTD]) can set it, and a value it cannot
Suppressions == {"L", "T", "D", "N"}

CoordInit ==
    /\ cpc = "call"
    /\ value \in CoordTokens
    /\ int_digits \in 0..MaxDigits
    /\ dec_digits \in 0..MaxDigits
    /\ zs \in Suppressions
    /\ result = None

\* the call parse_gerber_coord(value, int_digits, dec_digits, zero_suppression)
CoordCall ==
    /\ cpc = "call"
    /\ IF CoordRaises(value, int_digits, dec_digits, zs)
       THEN cpc' = "raised" /\ UNCHANGED result
       ELSE /\ result' = parse_gerber_coord(value, int_digits, dec_digits, zs)
            /\ cpc' = "done"
    /\ UNCHANGED <<value, int_digits, dec_digits, zs>>
    /\ UNCHANGED <<gvars, dvars, wvars, read_units>>

CoordNext == CoordCall

CoordSpecInit == GerberIdle /\ DrillIdle /\ CoordInit /\ DxfIdle /\ NoReads
SpecCoord == CoordSpecInit /\ [][CoordNext]_vars

----------------------------------------------------------------------------
(* write_dxf *)

\* bounds: the longest outline list and hole list handed to write_dxf
MaxOutline == 2
MaxHoles == 2

DigitChar(n) == CASE n = 0 -> "0" [] n = 1 -> "1" [] n = 2 -> "2" [] n = 3 -> "3"
                  [] n = 4 -> "4" [] n = 5 -> "5" [] n = 6 -> "6" [] n = 7 -> "7"
                  [] n = 8 -> "8" [] n = 9 -> "9"

\* f"{a}" of a non-negative int
RECURSIVE Str(_)
Str(n) == IF n < 10 THEN <<DigitChar(n)>> ELSE Str(n \div 10) \o <<DigitChar(n % 10)>>

\* f"{x:.6f}": sign, integer part, ".", six decimals, rounded half to even
Fmt6(x) ==
    LET n    == Abs(x[1])
        d    == x[2]
        num  == (n % d) * Pow10(6)
        q    == num \div d
        r    == num % d
        up   == 2 * r > d \/ (2 * r = d /\ q % 2 = 1)
        frac == IF up THEN q + 1 ELSE q
        ip   == IF frac = Pow10(6) THEN n \div d + 1 ELSE n \div d
        fp   == IF frac = Pow10(6) THEN 0 ELSE frac
    IN  (IF x[1] < 0 THEN <<"-">> ELSE <<>>) \o Str(ip) \o <<".">> \o RJust(Str(fp), 6)

\* the names and the literal Z value of the records
LINE_ == <<"L", "I", "N", "E">>
ARC_ == <<"A", "R", "C">>
CIRCLE_ == <<"C", "I", "R", "C", "L", "E">>
OUTLINE_ == <<"O", "U", "T", "L", "I", "N", "E">>
MOUNTING_HOLES_ == <<"M", "O", "U", "N", "T", "I", "N", "G", "_", "H", "O", "L", "E", "S">>
ENDSEC_ == <<"E", "N", "D", "S", "E", "C">>
EOF_ == <<"E", "O", "F">>
ZeroZ == <<"0", ".", "0">>

\* emit(...): every argument becomes one line of text
emit(args) == args

\* the HEADER and TABLES sections and the opening of the ENTITIES section
HeaderPart == emit(<<
    <<"0">>,
    <<"S", "E", "C", "T", "I", "O", "N">>,
    <<"2">>,
    <<"H", "E", "A", "D", "E", "R">>,
    <<"9">>,
    <<"$", "I", "N", "S", "U", "N", "I", "T", "S">>,
    <<"7", "0">>,
    <<"4">>,
    <<"0">>,
    <<"E", "N", "D", "S", "E", "C">>,
    <<"0">>,
    <<"S", "E", "C", "T", "I", "O", "N">>,
    <<"2">>,
    <<"T", "A", "B", "L", "E", "S">>,
    <<"0">>,
    <<"T", "A", "B", "L", "E">>,
    <<"2">>,
    <<"L", "A", "Y", "E", "R">>,
    <<"7", "0">>,
    <<"2">>,
    <<"0">>,
    <<"L", "A", "Y", "E", "R">>,
    <<"2">>,
    <<"O", "U", "T", "L", "I", "N", "E">>,
    <<"7", "0">>,
    <<"0">>,
    <<"6", "2">>,
    <<"7">>,
    <<"6">>,
    <<"C", "O", "N", "T", "I", "N", "U", "O", "U", "S">>,
    <<"0">>,
    <<"L", "A", "Y", "E", "R">>,
    <<"2">>,
    <<"M", "O", "U", "N", "T", "I", "N", "G", "_", "H", "O", "L", "E", "S">>,
    <<"7", "0">>,
    <<"0">>,
    <<"6", "2">>,
    <<"1">>,
    <<"6">>,
    <<"C", "O", "N", "T", "I", "N", "U", "O", "U", "S">>,
    <<"0">>,
    <<"E", "N", "D", "T", "A", "B">>,
    <<"0">>,
    <<"E", "N", "D", "S", "E", "C">>,
    <<"0">>,
    <<"S", "E", "C", "T", "I", "O", "N">>,
    <<"2">>,
    <<"E", "N", "T", "I", "T", "I", "E", "S">>>>)

LineRecord(e) ==
    emit(<<Str(0), LINE_, Str(8), OUTLINE_,
           Str(10), Fmt6(e[2]), Str(20), Fmt6(e[3]), Str(30), ZeroZ,
           Str(11), Fmt6(e[4]), Str(21), Fmt6(e[5]), Str(31), ZeroZ>>)

ArcRecord(e) ==
    emit(<<Str(0), ARC_, Str(8), OUTLINE_,
           Str(10), Fmt6(e[2]), Str(20), Fmt6(e[3]), Str(30), ZeroZ,
           Str(40), Fmt6(e[4]), Str(50), Fmt6(e[5]), Str(51), Fmt6(e[6])>>)

\* mutant: the radius field carries the diameter
CircleRecord_diameter(h) ==
    emit(<<Str(0), CIRCLE_, Str(8), MOUNTING_HOLES_,
           Str(10), Fmt6(h[1]), Str(20), Fmt6(h[2]), Str(30), ZeroZ,
           Str(40), Fmt6(h[3])>>)

CircleRecord(h) ==
    emit(<<Str(0), CIRCLE_, Str(8), MOUNTING_HOLES_,
           Str(10), Fmt6(h[1]), Str(20), Fmt6(h[2]), Str(30), ZeroZ,
           Str(40), Fmt6(RMul(h[3], <<1, 2>>))>>)

TrailerPart == emit(<<Str(0), ENDSEC_, Str(0), EOF_>>)

\* "".join(parts): the lines of the file
RECURSIVE JoinParts(_)
JoinParts(ps) == IF ps = <<>> THEN <<>> ELSE Head(ps) \o JoinParts(Tail(ps))

\* outline entities and holes handed to write_dxf
OutlinePool ==
    {<<"LINE", <<0, 1>>, <<0, 1>>, <<10, 1>>, <<0, 1>>>>,
     <<"LINE", <<-5, 2>>, <<2, 3>>, <<10, 1>>, <<127, 5>>>>,
     <<"ARC", <<0, 1>>, <<0, 1>>, <<10, 1>>, <<90, 1>>, <<0, 1>>>>,
     <<"ARC", <<10, 1>>, <<-5, 2>>, <<1, 8>>, <<0, 1>>, <<360, 1>>>>}
HolePool ==
    {<<<<0, 1>>, <<0, 1>>, <<3, 1>>>>,
     <<<<-5, 2>>, <<10, 1>>, <<1, 64>>>>,
     <<<<127, 5>>, <<2, 3>>, <<16, 5>>>>}

\* the sequences over S of length at most n
SeqsUpTo(S, n) == UNION {[1..k -> S] : k \in 0..n}

DxfInit ==
    /\ wpc = "call"
    /\ outline \in SeqsUpTo(OutlinePool, MaxOutline)
    /\ hole_list \in SeqsUpTo(HolePool, MaxHoles)
    /\ parts = <<>>

\* the call write_dxf(path, outline, holes): path receives JoinParts(parts)
WriteDxf ==
    /\ wpc = "call"
    /\ parts' = <<HeaderPart>>
                   \o [k \in 1..Len(outline) |->
                         IF outline[k][1] = "LINE" THEN LineRecord(outline[k])
                         ELSE ArcRecord(outline[k])]
                   \o [k \in 1..Len(hole_list) |-> CircleRecord(hole_list[k])]
                   \o <<TrailerPart>>
    /\ wpc' = "done"
    /\ UNCHANGED <<outline, hole_list>>
    /\ UNCHANGED <<gvars, dvars, cvars, read_units>>

DxfNext == WriteDxf

DxfSpecInit == GerberIdle /\ DrillIdle /\ CoordIdle /\ DxfInit /\ NoReads
SpecDxf == DxfSpecInit /\ [][DxfNext]_vars

----------------------------------------------------------------------------
(* Properties of the Gerber extractor *)

\* a step of the scan loop: raw_line' is the line it processed
GStep == pc = "scan" /\ pc' = "scan" /\ line_no' = line_no + 1

\* the line reaches the command-line part of the loop body
CmdLine(l) == ~IsSkipped(l) /\ ~IsParamBlock(l)

\* the next position a command line resolves to on one axis: the decoded
\* token when the line carries one, the current position otherwise
ResolveAxis(letter, l, cur, idig, ddig, zsup) ==
    IF axis(letter, StripLine(l)) # None
    THEN parse_gerber_coord(axis(letter, StripLine(l)), idig, ddig, zsup)
    ELSE cur

Zero == <<0, 1>>
Ten == <<10, 1>>

\* C1: the entity list changes only in a step that processes a command line
\* whose operation is draw (D01) with current_x, current_y, next_x and next_y
\* all defined, and then by exactly one appended entity; no other line
\* (move, flash, no operation, parameter block, comment, unresolved draw)
\* changes it.
C1_OnlyResolvedDrawEmits ==
    [][entities' # entities =>
         /\ GStep /\ CmdLine(raw_line') /\ LineOp(raw_line') = 1
         /\ cur_x # None /\ cur_y # None
         /\ ResolveAxis("X", raw_line', cur_x, x_int, x_dec, zero_suppression) # None
         /\ ResolveAxis("Y", raw_line', cur_y, y_int, y_dec, zero_suppression) # None
         /\ Len(entities') = Len(entities) + 1
         /\ SubSeq(entities', 1, Len(entities)) = entities]_vars

\* a draw line has appended an entity
C1_Witness ==
    /\ pc = "scan" /\ LineOp(raw_line) = 1 /\ CmdLine(raw_line)
    /\ Len(entities) = 2

\* C2: after a command line whose operation is flash (D03) or that has no
\* operation code, the current position is the line's resolved next position
\* (the decoded token on every axis the line supplies, the other axis carried
\* over) and no entity was emitted.
C2_FlashOrNoOpMovesPosition ==
    [][(GStep /\ CmdLine(raw_line') /\ LineOp(raw_line') \in {3, NoDcode}) =>
         /\ cur_x' = ResolveAxis("X", raw_line', cur_x, x_int, x_dec, zero_suppression)
         /\ cur_y' = ResolveAxis("Y", raw_line', cur_y, y_int, y_dec, zero_suppression)
         /\ entities' = entities]_vars

\* C3: a draw (D01) line processed while the current position is not fully
\* resolved emits no entity and updates the current position to the line's
\* resolved next position.
C3_UnresolvedDrawMovesPosition ==
    [][(GStep /\ CmdLine(raw_line') /\ LineOp(raw_line') = 1
          /\ (cur_x = None \/ cur_y = None)) =>
         /\ entities' = entities
         /\ cur_x' = ResolveAxis("X", raw_line', cur_x, x_int, x_dec, zero_suppression)
         /\ cur_y' = ResolveAxis("Y", raw_line', cur_y, y_int, y_dec, zero_suppression)]_vars

\* C4: in Linear mode a draw (D01) line with fully resolved current and next
\* positions appends exactly one Line from the position before the line to
\* the resolved next position and leaves current position = next; and the
\* text X0Y0D02* / X10000000Y0D01* under the default format returns exactly
\* the Line (0,0)-(10,0).
C4_LinearDrawEmitsOneLine ==
    /\ [][(GStep /\ CmdLine(raw_line') /\ LineOp(raw_line') = 1
             /\ LineMode(mode, raw_line') = "LINEAR"
             /\ cur_x # None /\ cur_y # None
             /\ ResolveAxis("X", raw_line', cur_x, x_int, x_dec, zero_suppression) # None
             /\ ResolveAxis("Y", raw_line', cur_y, y_int, y_dec, zero_suppression) # None) =>
            /\ entities' = Append(entities,
                 <<"LINE", cur_x, cur_y,
                   ResolveAxis("X", raw_line', cur_x, x_int, x_dec, zero_suppression),
                   ResolveAxis("Y", raw_line', cur_y, y_int, y_dec, zero_suppression)>>)
            /\ cur_x' = ResolveAxis("X", raw_line', cur_x, x_int, x_dec, zero_suppression)
            /\ cur_y' = ResolveAxis("Y", raw_line', cur_y, y_int, y_dec, zero_suppression)]_vars
    /\ [][(line_no = 1 /\ raw_line = GL_move_origin /\ GStep /\ raw_line' = GL_draw_x10) =>
            entities' = <<<<"LINE", Zero, Zero, Ten, Zero>>>>]_vars
    /\ []((pc = "done" /\ line_no = 2 /\ raw_line = GL_draw_x10 /\ Len(entities) = 1) =>
            converted = <<<<"LINE", Zero, Zero, Ten, Zero>>>>)

\* the text X0Y0D02* / X10000000Y0D01* has been read and returned one Line
C4_Witness ==
    /\ pc = "done" /\ line_no = 2 /\ raw_line = GL_draw_x10
    /\ converted = <<<<"LINE", Zero, Zero, Ten, Zero>>>>

----------------------------------------------------------------------------
(* Unit conversion *)

\* an outline entity with every length multiplied by f, angles untouched
MmOf(e, f) ==
    IF e[1] = "LINE"
    THEN <<"LINE", RMul(e[2], f), RMul(e[3], f), RMul(e[4], f), RMul(e[5], f)>>
    ELSE <<"ARC", RMul(e[2], f), RMul(e[3], f),
           <<"hypot", RMul(e[4][2], f), RMul(e[4][3], f)>>, e[5], e[6]>>

AllMmOf(es, f) == [k \in 1..Len(es) |-> MmOf(es[k], f)]

\* 25.4 for Inch, 1 for Millimeter
Inch == <<127, 5>>

\* the record of the hole a coordinate line emits at factor f
HoleAt(x, y, d, f) == <<RMul(x, f), RMul(y, f), RMul(d, f)>>

\* C5 as stated: every length in the returned geometry is the millimetre
\* value of what was read: a value read while Inch mode was active is output
\* multiplied by 25.4 and one read while Millimeter mode was active is output
\* unchanged, even if the unit mode changes later in the file.  Stated for
\* the files whose coordinates and diameters were all read under one mode.
C5_OutputIsMmOfWhatWasRead ==
    /\ []((pc = "done" /\ read_units = {"MM"}) => converted = entities)
    /\ []((pc = "done" /\ read_units = {"IN"}) => converted = AllMmOf(entities, Inch))
    /\ [][(holes' # holes /\ read_units' = {"MM"}) =>
            holes' = Append(holes, <<current_x', current_y', tool_diameter[current_tool]>>)]_vars
    /\ [][(holes' # holes /\ read_units' = {"IN"}) =>
            holes' = Append(holes, HoleAt(current_x', current_y',
                                          tool_diameter[current_tool], Inch))]_vars

\* C5 amended: every length in the returned geometry is the value read
\* multiplied by the factor (25.4 for Inch, 1 for Millimeter) of the unit
\* mode in effect when the conversion is applied, not when the value was
\* read: for the Gerber extractor the unit mode after the last line, for
\* the drill extractor the unit mode at the coordinate line that emits the
\* hole (for its position, a carried-over axis included, and its diameter).
C5_OutputIsScaledAtConversion ==
    /\ [](pc = "done" =>
            converted = AllMmOf(entities, IF units = "IN" THEN Inch ELSE <<1, 1>>))
    /\ [][holes' # holes =>
            holes' = Append(holes,
                       HoleAt(current_x', current_y', tool_diameter[current_tool],
                              IF drill_units = "IN" THEN Inch ELSE <<1, 1>>))]_vars

\* an entity whose coordinates were all read in Millimeter mode is returned
\* from a file that ends in Inch mode
C5_Witness ==
    /\ pc = "done" /\ read_units = {"MM"} /\ units = "IN"
    /\ Len(converted) >= 1 /\ converted # entities

\* C6: nothing is converted before the last line, stored entities are never
\* rescaled while scanning, units is initially Millimeter and changes only
\* to the mode of a recognised unit directive, and the result is every
\* stored entity with its endpoints, center and radius multiplied by the
\* one factor of the final unit mode (25.4 for inch, 1 otherwise), whatever
\* mode was active at emission; Arc angles are not scaled.
C6_ConvertedOnceByLastDirective ==
    /\ [](line_no = 0 => units = "MM")
    /\ [](pc = "scan" => converted = <<>>)
    /\ [][GStep =>
            /\ SubSeq(entities', 1, Len(entities)) = entities
            /\ units' = IF ~IsSkipped(raw_line') /\ IsParamBlock(raw_line')
                           /\ ParamOf(raw_line') = <<"M", "O", "I", "N">> THEN "IN"
                        ELSE IF ~IsSkipped(raw_line') /\ IsParamBlock(raw_line')
                           /\ ParamOf(raw_line') = <<"M", "O", "M", "M">> THEN "MM"
                        ELSE units]_vars
    /\ [](pc = "done" =>
            /\ Len(converted) = Len(entities)
            /\ \A k \in 1..Len(entities) :
                 converted[k] = MmOf(entities[k], IF units = "IN" THEN Inch ELSE <<1, 1>>))

\* an Arc with a non-zero angle, emitted in Millimeter mode, is returned from
\* a file whose last unit directive is inch
C6_Witness ==
    /\ pc = "done" /\ units = "IN" /\ read_units = {"MM"}
    /\ \E k \in 1..Len(converted) :
         /\ converted[k][1] = "ARC" /\ converted[k][5] # Zero
         /\ converted[k][2] # entities[k][2]

----------------------------------------------------------------------------
(* Properties of the drill extractor *)

\* a step of the scan loop: raw' is the line it processed
DStep == dpc = "scan" /\ dpc' = "scan" /\ dline_no' = dline_no + 1

\* a coordinate line: its first character is X or Y
CoordLine(l) == Strip(l) # <<>> /\ UpperChar(Strip(l)[1]) \in {"X", "Y"}

\* a <= b
RLeq(a, b) == ~RLess(b, a)

\* the filter as the contract states it, both bounds inclusive
InRange(d, lo, hi) == RLeq(lo, d) /\ (hi = None \/ RLeq(d, hi))

Three == <<3, 1>>

\* C7: the hole list changes only in a step that processes a coordinate
\* line at which current tool, current_x and current_y are all set and the
\* tool has an entry in the tool table, and then by exactly one appended
\* record; every such line whose diameter passes the filter appends its
\* record, also when an equal record is already in the list.
C7_OnlyQualifyingCoordLineEmits ==
    /\ [][holes' # holes =>
            /\ DStep /\ CoordLine(raw')
            /\ current_tool # NoTool /\ current_x' # None /\ current_y' # None
            /\ current_tool \in DOMAIN tool_diameter
            /\ Len(holes') = Len(holes) + 1
            /\ SubSeq(holes', 1, Len(holes)) = holes]_vars
    /\ [][(/\ DStep /\ CoordLine(raw')
           /\ current_tool # NoTool /\ current_x' # None /\ current_y' # None
           /\ current_tool \in DOMAIN tool_diameter
           /\ InRange(RMul(tool_diameter[current_tool],
                           IF drill_units = "IN" THEN Inch ELSE <<1, 1>>),
                      min_hole_size_mm, max_hole_size_mm)) =>
            /\ Len(holes') = Len(holes) + 1
            /\ SubSeq(holes', 1, Len(holes)) = holes]_vars

\* two coordinate lines at the same position have each appended a record
C7_Witness ==
    /\ dpc = "scan" /\ CoordLine(raw)
    /\ Len(holes) = 2 /\ holes[1] = holes[2]

\* C8: a qualifying coordinate line appends a hole if and only if
\* min_diameter_mm <= diameter_mm and (max_diameter_mm is unset or
\* diameter_mm <= max_diameter_mm); after METRIC, T01C3.000000 and T01 the
\* line X0Y0 yields the hole (0,0,3.0) with min=3.0, no hole with min=3.1
\* and one hole with min=2.0, max=4.0.
C8_FilterIsInclusive ==
    /\ [][(/\ DStep /\ CoordLine(raw')
           /\ current_tool # NoTool /\ current_x' # None /\ current_y' # None
           /\ current_tool \in DOMAIN tool_diameter) =>
            (holes' # holes <=>
               InRange(RMul(tool_diameter[current_tool],
                            IF drill_units = "IN" THEN Inch ELSE <<1, 1>>),
                       min_hole_size_mm, max_hole_size_mm))]_vars
    /\ [][(/\ dline_no = 3 /\ drill_units = "MM" /\ current_tool = 1
           /\ DOMAIN tool_diameter = {1} /\ tool_diameter[1] = Three
           /\ current_x = None /\ current_y = None /\ holes = <<>>
           /\ DStep /\ raw' = DL_xy0) =>
            /\ (min_hole_size_mm = Three /\ max_hole_size_mm = None)
                  => holes' = <<<<Zero, Zero, Three>>>>
            /\ min_hole_size_mm = <<31, 10>> => holes' = <<>>
            /\ (min_hole_size_mm = <<2, 1>> /\ max_hole_size_mm = <<4, 1>>)
                  => holes' = <<<<Zero, Zero, Three>>>>]_vars

\* a hole whose diameter equals both bounds has been emitted
C8_Witness ==
    /\ dline_no = 4 /\ raw = DL_xy0 /\ drill_units = "MM"
    /\ min_hole_size_mm = Three /\ max_hole_size_mm = Three
    /\ holes = <<<<Zero, Zero, Three>>>>

\* C9: the unit mode is Inch until a directive is read; an INCH or METRIC
\* line changes only the unit mode; a tool definition stores the literal
\* diameter whatever the unit mode; and an emitted hole carries the stored
\* diameter and the position, each multiplied by the factor of the unit mode
\* at the coordinate line (25.4 for Inch, 1 for Millimeter).
C9_UnitsApplyAtCoordinateLine ==
    /\ [](dline_no = 0 => drill_units = "IN")
    /\ [][(DStep /\ ~DrillIsSkipped(raw') /\ (IsInch(raw') \/ IsMetric(raw'))) =>
            /\ drill_units' = IF IsInch(raw') THEN "IN" ELSE "MM"
            /\ UNCHANGED <<tool_diameter, current_tool, current_x, current_y, holes>>]_vars
    /\ [][(DStep /\ raw' = DL_def1) =>
            /\ DOMAIN tool_diameter' = DOMAIN tool_diameter \cup {1}
            /\ tool_diameter'[1] = Three
            /\ \A t \in DOMAIN tool_diameter \ {1} : tool_diameter'[t] = tool_diameter[t]]_vars
    /\ [][(DStep /\ raw' = DL_def2) =>
            /\ DOMAIN tool_diameter' = DOMAIN tool_diameter \cup {2}
            /\ tool_diameter'[2] = <<1, 8>>
            /\ \A t \in DOMAIN tool_diameter \ {2} : tool_diameter'[t] = tool_diameter[t]]_vars
    /\ [][holes' # holes =>
            holes'[Len(holes')] =
               HoleAt(current_x', current_y', tool_diameter[current_tool],
                      IF drill_units = "IN" THEN Inch ELSE <<1, 1>>)]_vars

\* a tool registered in Inch mode has drilled a hole in Millimeter mode: the
\* hole carries the literal diameter 3.0
C9_Witness ==
    /\ dline_no = 4 /\ raw = DL_xy0 /\ drill_units = "MM"
    /\ read_units = {"IN", "MM"}
    /\ holes = <<<<Zero, Zero, Three>>>>

----------------------------------------------------------------------------
(* Properties of the coordinate decoder *)

\* the token without its sign, and its sign
Unsigned(t) == IF t # <<>> /\ t[1] \in {"+", "-"} THEN Tail(t) ELSE t
SignOf(t) == IF t # <<>> /\ t[1] = "-" THEN -1 ELSE 1
SignChars(t) == IF t # <<>> /\ t[1] \in {"+", "-"} THEN <<t[1]>> ELSE <<>>

PureDigits(t) == Unsigned(t) # <<>> /\ \A k \in 1..Len(Unsigned(t)) : Unsigned(t)[k] \in Digits

\* d zero-padded on the left / on the right to width w
ZeroPadLeft(d, w) == [k \in 1..w |-> IF k <= w - Len(d) THEN "0" ELSE d[k - (w - Len(d))]]
ZeroPadRight(d, w) == [k \in 1..w |-> IF k <= Len(d) THEN d[k] ELSE "0"]

\* C10: for a pure-digit token shorter than total = integer_digits +
\* decimal_digits, the decoded value is that of the token zero-padded to
\* width total, on the right when zero_suppression is Trailing and on the
\* left for any other value, and it is the padded string read as an integer
\* divided by 10^decimal_digits with the token's sign applied.
C10_ShortTokenDecodesAsPadded ==
    (/\ cpc = "done" /\ PureDigits(value)
     /\ Len(Unsigned(value)) < int_digits + dec_digits) =>
       LET total  == int_digits + dec_digits
           padded == IF zs = "T" THEN ZeroPadRight(Unsigned(value), total)
                     ELSE ZeroPadLeft(Unsigned(value), total)
       IN  /\ result = parse_gerber_coord(SignChars(value) \o padded,
                                          int_digits, dec_digits, zs)
           /\ result = Rat(SignOf(value) * IntOf(padded), Pow10(dec_digits))

\* a short negative token has been decoded under Trailing suppression
C10_Witness ==
    /\ cpc = "done" /\ zs = "T" /\ value = <<"-", "7">>
    /\ int_digits = 1 /\ dec_digits = 2
    /\ result = <<-7, 1>>

\* the rightmost k characters of d (none for k = 0)
Rightmost(d, k) == SubSeq(d, Len(d) - k + 1, Len(d))

\* C11: for a pure-digit token longer than total = integer_digits +
\* decimal_digits (total = 0 included), the decoded value is computed from
\* only the rightmost total digits: every token with the same sign and the
\* same rightmost total digits decodes to the same value.
C11_LongTokenUsesRightmostDigits ==
    (/\ cpc = "done" /\ PureDigits(value)
     /\ Len(Unsigned(value)) > int_digits + dec_digits) =>
       LET total == int_digits + dec_digits
       IN  \A t \in DigitTokens :
             (/\ Len(t) > total
              /\ Rightmost(t, total) = Rightmost(Unsigned(value), total)) =>
                parse_gerber_coord(SignChars(value) \o t, int_digits, dec_digits, zs) = result

----------------------------------------------------------------------------
(* Error handling *)

\* C12: for every input text the Gerber extractor and the drill extractor
\* process every line and return a list; neither ever ends by raising an
\* error.
C12_ExtractorsNeverRaise == pc # "raised" /\ dpc # "raised"

----------------------------------------------------------------------------
(* Arcs *)

\* a draw line in arc mode with resolved current and next positions
ArcDraw ==
    /\ GStep /\ CmdLine(raw_line') /\ LineOp(raw_line') = 1
    /\ LineMode(mode, raw_line') # "LINEAR"
    /\ cur_x # None /\ cur_y # None
    /\ ResolveAxis("X", raw_line', cur_x, x_int, x_dec, zero_suppression) # None
    /\ ResolveAxis("Y", raw_line', cur_y, y_int, y_dec, zero_suppression) # None

\* the last entity of a list
LastOf(es) == es[Len(es)]

\* an angle in [0, 360): an exact angle in that range, or the direction of a
\* vector off the compass directions
InFullTurn(a) == Len(a) = 3 \/ (~RLess(a, <<0, 1>>) /\ RLess(a, <<360, 1>>))

\* C13: for a draw in arc mode the raw start angle is the direction from the
\* center to the position before the line and the raw end angle the
\* direction from the center to the next position, both in [0, 360); a
\* CounterClockwiseArc stores (raw start, raw end), a ClockwiseArc stores
\* them swapped; the clockwise arc from (10,0) around (0,0) to (0,10)
\* (I=-10000000, J=0) is stored with start = 90 and end = 0.
C13_ArcAnglesSwapForClockwise ==
    /\ [][ArcDraw =>
            LET e         == LastOf(entities')
                raw_start == Atan2Deg(RSub(cur_y, e[3]), RSub(cur_x, e[2]))
                raw_end   == Atan2Deg(RSub(cur_y', e[3]), RSub(cur_x', e[2]))
            IN  /\ Len(entities') = Len(entities) + 1 /\ e[1] = "ARC"
                /\ InFullTurn(raw_start) /\ InFullTurn(raw_end)
                /\ LineMode(mode, raw_line') = "CCW" => (e[5] = raw_start /\ e[6] = raw_end)
                /\ LineMode(mode, raw_line') = "CW" => (e[5] = raw_end /\ e[6] = raw_start)]_vars
    /\ [][(/\ cur_x = Ten /\ cur_y = Zero /\ x_int = 4 /\ x_dec = 6 /\ y_int = 4 /\ y_dec = 6
           /\ GStep /\ raw_line' = GL_cw_arc) =>
            LastOf(entities') = <<"ARC", Zero, Zero, <<"hypot", Ten, Zero>>, <<90, 1>>, Zero>>]_vars

\* the offset a draw line gives with this letter: the decoded token, or 0
\* when the line has none
OffsetOf(letter, l, idig, ddig, zsup) ==
    IF axis(letter, StripLine(l)) = None THEN Zero
    ELSE parse_gerber_coord(axis(letter, StripLine(l)), idig, ddig, zsup)

Hundred == <<100, 1>>

\* C19: every emitted Arc has center = (position before the draw line) +
\* (I, J), with I decoded with the X-axis format, J with the Y-axis format
\* and an absent offset counting as 0, and radius = the distance from the
\* position before the line to the center (radius^2 = I^2 + J^2); the end
\* point does not enter the radius, and a draw in arc mode with neither I
\* nor J emits an Arc centered on the current position with radius 0.  Under
\* the format 2.5 / 3.4 the offsets I1000000 J1000000 are (10, 100).
C19_ArcCenterAndRadiusFromOffsets ==
    /\ [][ArcDraw =>
            LET e == LastOf(entities')
                I == OffsetOf("I", raw_line', x_int, x_dec, zero_suppression)
                J == OffsetOf("J", raw_line', y_int, y_dec, zero_suppression)
            IN  /\ Len(entities') = Len(entities) + 1 /\ e[1] = "ARC"
                /\ e[2] = RAdd(cur_x, I) /\ e[3] = RAdd(cur_y, J)
                /\ e[4] = <<"hypot", RAbs(I), RAbs(J)>>
                /\ (axis("I", StripLine(raw_line')) = None
                      /\ axis("J", StripLine(raw_line')) = None) =>
                     (e[2] = cur_x /\ e[3] = cur_y /\ e[4] = <<"hypot", Zero, Zero>>)]_vars
    /\ [][(/\ x_int = 2 /\ x_dec = 5 /\ y_int = 3 /\ y_dec = 4
           /\ cur_x # None /\ cur_y # None
           /\ GStep /\ raw_line' = GL_ccw_ij) =>
            /\ LastOf(entities')[2] = RAdd(cur_x, Ten)
            /\ LastOf(entities')[3] = RAdd(cur_y, Hundred)
            /\ LastOf(entities')[4] = <<"hypot", Ten, Hundred>>]_vars
    /\ [][(/\ cur_x # None /\ cur_y # None /\ GStep /\ raw_line' = GL_ccw_j) =>
            /\ LastOf(entities')[2] = cur_x
            /\ LastOf(entities')[4][2] = Zero]_vars

\* an Arc has been emitted from (10,10) with offsets decoded under two
\* different axis formats
C19_Witness ==
    /\ pc = "scan" /\ raw_line = GL_ccw_ij /\ x_dec = 5 /\ y_dec = 4
    /\ Len(entities) = 1
    /\ entities[1][2] = <<20, 1>> /\ entities[1][3] = <<110, 1>>
    /\ entities[1][4] = <<"hypot", Ten, Hundred>>

----------------------------------------------------------------------------
(* Drill position *)

\* the value a coordinate line gives an axis: the literal after the letter,
\* or the prior value when the line has none
AxisAfter(letter, l, prior) ==
    IF axis(letter, Strip(l)) = None THEN prior ELSE FloatOf(axis(letter, Strip(l)))

\* C20: every coordinate line updates the current position per axis
\* independently (an axis present on the line takes the line's value, an
\* axis omitted keeps its prior value), also when the line emits no hole;
\* a coordinate line that supplies only one axis emits its hole at (new
\* value, carried-over value of the other axis).  X1.5 sets x to 1.5 and
\* keeps y, Y-2 sets y to -2 and keeps x, X0Y0 sets both to 0.
C20_PositionUpdatesPerAxis ==
    /\ [][(DStep /\ CoordLine(raw')) =>
            /\ current_x' = AxisAfter("X", raw', current_x)
            /\ current_y' = AxisAfter("Y", raw', current_y)]_vars
    /\ [][(DStep /\ raw' = DL_x1) =>
            current_x' = <<3, 2>> /\ current_y' = current_y]_vars
    /\ [][(DStep /\ raw' = DL_y2) =>
            current_y' = <<-2, 1>> /\ current_x' = current_x]_vars
    /\ [][(DStep /\ raw' = DL_xy0) =>
            current_x' = Zero /\ current_y' = Zero]_vars
    /\ [][(DStep /\ CoordLine(raw') /\ holes' # holes) =>
            LET f == IF drill_units = "IN" THEN Inch ELSE <<1, 1>>
                h == LastOf(holes')
            IN  /\ axis("Y", Strip(raw')) = None =>
                   (h[1] = RMul(FloatOf(axis("X", Strip(raw'))), f)
                      /\ h[2] = RMul(current_y, f))
                /\ axis("X", Strip(raw')) = None =>
                   (h[2] = RMul(FloatOf(axis("Y", Strip(raw'))), f)
                      /\ h[1] = RMul(current_x, f))]_vars

\* X1.5 has emitted the only hole, at the y that the line Y-2 left behind
\* without emitting one
C20_Witness ==
    /\ dpc = "scan" /\ raw = DL_x1 /\ drill_units = "IN"
    /\ current_x = <<3, 2>> /\ current_y = <<-2, 1>>
    /\ Len(holes) = 1
    /\ holes[1][1] = RMul(<<3, 2>>, Inch) /\ holes[1][2] = RMul(<<-2, 1>>, Inch)

----------------------------------------------------------------------------
(* Properties of the DXF emitter *)

\* the file as (group code, value) pairs
DxfText == JoinParts(parts)
PairCount == Len(DxfText) \div 2
CodeAt(k) == DxfText[2 * k - 1]
ValueAt(k) == DxfText[2 * k]

\* the pair `2 / ENTITIES` that opens the ENTITIES section
EntitiesAt ==
    CHOOSE k \in 1..PairCount :
        CodeAt(k) = <<"2">> /\ ValueAt(k) = <<"E", "N", "T", "I", "T", "I", "E", "S">>

\* the pairs after it that start a record (group code 0), and the i-th one
RecordStarts == {k \in (EntitiesAt + 1)..PairCount : CodeAt(k) = <<"0">>}
RecordAt(i) == CHOOSE k \in RecordStarts : Cardinality({j \in RecordStarts : j <= k}) = i

\* the pairs of the record that starts at pair k
FieldsOf(k) ==
    {j \in (k + 1)..PairCount : \A b \in RecordStarts : b <= k \/ b > j}

\* the record at k has a field with this group code and a value in vs
HasField(k, code, v) == \E j \in FieldsOf(k) : CodeAt(j) = code /\ ValueAt(j) = v

\* the value of the field with this group code
FieldValue(k, code) == ValueAt(CHOOSE j \in FieldsOf(k) : CodeAt(j) = code)

HalfMicro == <<1, 2000000>>

\* the decimal text v denotes x to within half a unit of the sixth decimal
Denotes(v, x) == ~RLess(HalfMicro, RAbs(RSub(FloatOf(v), x)))

\* C14: the ENTITIES section holds exactly len(outline) + len(holes)
\* records: one LINE or ARC record on layer OUTLINE per outline entity, in
\* list order, then one CIRCLE record on layer MOUNTING_HOLES per hole, in
\* list order, with radius = diameter / 2; no CIRCLE precedes a LINE or ARC,
\* and the section is closed by ENDSEC and EOF.
C14_OneRecordPerEntityThenHoles ==
    wpc = "done" =>
      LET n == Len(outline)
          h == Len(hole_list)
      IN  /\ Cardinality(RecordStarts) = n + h + 2
          /\ \A i \in 1..n :
                /\ ValueAt(RecordAt(i)) =
                      (IF outline[i][1] = "LINE" THEN <<"L", "I", "N", "E">> ELSE <<"A", "R", "C">>)
                /\ HasField(RecordAt(i), <<"8">>, <<"O", "U", "T", "L", "I", "N", "E">>)
          /\ \A i \in 1..h :
                /\ ValueAt(RecordAt(n + i)) = <<"C", "I", "R", "C", "L", "E">>
                /\ HasField(RecordAt(n + i), <<"8">>,
                            <<"M", "O", "U", "N", "T", "I", "N", "G", "_", "H", "O", "L", "E", "S">>)
                /\ Denotes(FieldValue(RecordAt(n + i), <<"4", "0">>),
                           RMul(hole_list[i][3], <<1, 2>>))
          /\ ValueAt(RecordAt(n + h + 1)) = <<"E", "N", "D", "S", "E", "C">>
          /\ ValueAt(RecordAt(n + h + 2)) = <<"E", "O", "F">>
          /\ RecordAt(n + h + 2) = PairCount

\* a file with a LINE, an ARC and two holes has been written
C14_Witness ==
    /\ wpc = "done" /\ Len(outline) = 2 /\ Len(hole_list) = 2
    /\ outline[1][1] = "ARC" /\ outline[2][1] = "LINE"
    /\ hole_list[1] # hole_list[2]
    /\ Cardinality(RecordStarts) = 6

\* the group codes of the real-valued fields
NumericCodes == {<<"1", "0">>, <<"2", "0">>, <<"3", "0">>, <<"1", "1">>, <<"2", "1">>,
                 <<"3", "1">>, <<"4", "0">>, <<"5", "0">>, <<"5", "1">>}

\* v is digits, ".", six digits, with an optional leading "-"
SixDecimals(v) ==
    LET u == IF v # <<>> /\ v[1] = "-" THEN Tail(v) ELSE v
    IN  /\ Len(u) >= 8 /\ u[Len(u) - 6] = "."
        /\ \A k \in 1..Len(u) : k # Len(u) - 6 => u[k] \in Digits

\* C15: every real-valued field of every LINE, ARC and CIRCLE record - the
\* coordinates, the Z fields (group codes 30 and 31) included, the radius
\* and the angles - is written with fixed 6-decimal precision.
C15_AllNumericFieldsSixDecimals ==
    wpc = "done" =>
      \A k \in (EntitiesAt + 1)..PairCount :
         CodeAt(k) \in NumericCodes => SixDecimals(ValueAt(k))

----------------------------------------------------------------------------
(* Codes and parameter blocks *)

\* the numbers of the codes of a line that start with the letter c: every
\* c followed by a maximal run of digits, in order
RECURSIVE CodesFrom(_, _, _)
CodesFrom(c, s, k) ==
    LET g == NextChar(s, c, k)
        e == DigitRunEnd(s, g + 1)
    IN  IF g > Len(s) THEN <<>>
        ELSE IF e > g + 1 THEN <<IntOf(SubSeq(s, g + 1, e - 1))>> \o CodesFrom(c, s, e)
        ELSE CodesFrom(c, s, g + 1)

CodesOf(c, l) == CodesFrom(c, Upper(StripLine(l)), 1)

IsOneTwoThree(n) == n \in {1, 2, 3}

\* the last of the codes 1, 2, 3 among ns, 0 when there is none
LastCode(ns) ==
    IF SelectSeq(ns, IsOneTwoThree) = <<>> THEN 0
    ELSE LastOf(SelectSeq(ns, IsOneTwoThree))

\* the draw mode after a line read in mode m
ModeOfCodes(m, l) ==
    CASE LastCode(CodesOf("G", l)) = 1 -> "LINEAR"
      [] LastCode(CodesOf("G", l)) = 2 -> "CW"
      [] LastCode(CodesOf("G", l)) = 3 -> "CCW"
      [] OTHER -> m

\* C16: per command line the codes resolve as last-wins: the draw mode
\* after the line is that of the last interpolation code (G 1, 2 or 3) on
\* the line, or the mode carried over when the line has none, and that mode
\* is the one a draw on the same line uses; the operation is that of the
\* last D code whose number is 1, 2 or 3, other D codes are disregarded,
\* and a line with no such D code has no operation.
C16_LastCodeWins ==
    [][(GStep /\ CmdLine(raw_line')) =>
         /\ mode' = ModeOfCodes(mode, raw_line')
         /\ dcode' = (IF LastCode(CodesOf("D", raw_line')) = 0 THEN NoDcode
                      ELSE LastCode(CodesOf("D", raw_line')))
         /\ entities' # entities =>
               /\ LastCode(CodesOf("D", raw_line')) = 1
               /\ LastOf(entities')[1] = "LINE" <=> ModeOfCodes(mode, raw_line') = "LINEAR"
         /\ LastCode(CodesOf("D", raw_line')) = 2 =>
               (cur_x' = next_x' /\ cur_y' = next_y' /\ entities' = entities)
         /\ LastCode(CodesOf("D", raw_line')) = 0 => entities' = entities]_vars

\* a command line with G codes, none of them 1, 2 or 3, that carries no
\* coordinate and no operation code 1, 2 or 3
Unrecognised(l) ==
    /\ CmdLine(l)
    /\ CodesOf("G", l) # <<>> /\ LastCode(CodesOf("G", l)) = 0
    /\ LastCode(CodesOf("D", l)) = 0
    /\ \A a \in {"X", "Y", "I", "J"} : axis(a, StripLine(l)) = None

\* C17: a command line whose G code is not an interpolation code (G36, G37,
\* G10, G20, G74, G75, G90, ...) and that carries no coordinates and no
\* operation code leaves the draw state (mode, current position, format,
\* units) unchanged and emits nothing.
C17_UnrecognisedLineChangesNothing ==
    [][(GStep /\ Unrecognised(raw_line')) =>
         UNCHANGED <<mode, cur_x, cur_y, x_int, x_dec, y_int, y_dec,
                     zero_suppression, units, entities>>]_vars

\* a line that is a bracketed parameter block, wherever its terminator sits
BlockLine(l) ==
    /\ StartsWith(Strip(l), <<"%">>)
    /\ EndsWith(Strip(l), <<"%">>) \/ EndsWith(Strip(l), <<"%", "*">>)

\* C18: each of the shapes %MOIN%, %MOIN%* and %MOIN*% sets units to Inch,
\* likewise %MOMM..% sets Millimeter and %FSLAX25Y25..% replaces the
\* suppression mode and all four digit counts together; any other
\* parameter block changes no state; and no parameter block line is
\* interpreted as a command line.
C18_DirectiveAppliesInEveryShape ==
    [][GStep =>
         /\ raw_line' \in {GL_moin, GL_moin_after, GL_moin_star} =>
               (units' = "IN" /\ UNCHANGED <<x_int, x_dec, y_int, y_dec, zero_suppression>>)
         /\ raw_line' \in {GL_momm, GL_momm_star} =>
               (units' = "MM" /\ UNCHANGED <<x_int, x_dec, y_int, y_dec, zero_suppression>>)
         /\ raw_line' \in {GL_fs, GL_fs_after, GL_fs_star} =>
               /\ zero_suppression' = "L"
               /\ x_int' = 2 /\ x_dec' = 5 /\ y_int' = 2 /\ y_dec' = 5
               /\ UNCHANGED units
         /\ raw_line' = GL_other_param =>
               UNCHANGED <<x_int, x_dec, y_int, y_dec, zero_suppression, units>>
         /\ BlockLine(raw_line') =>
               UNCHANGED <<mode, cur_x, cur_y, next_x, next_y, dcode, entities>>]_vars

====
